---------------------------- MODULE Spec2Model ----------------------------
(***************************************************************************)
(* Model of the reinforcement-assignment engine of ElLocoPepe.py:          *)
(* compute_assignments and the two algorithms it dispatches to,            *)
(* compute_balanced_assignments and compute_power_based_assignments.       *)
(*                                                                         *)
(* A roster (the DataFrame online_df) is a sequence of rows                *)
(* [name, power, slots_to_send] in the order members_df produces: sorted   *)
(* by power, descending.  power is the display value members_df computes   *)
(* (millions, rounded to one decimal); it is held here as an integer       *)
(* number of tenths of a million, so 100.0 is 1000 and 100.5 is 1005.      *)
(*                                                                         *)
(* random.shuffle is modelled by drawing the next element of the shuffled  *)
(* list from what is left of it: every permutation is a behaviour.         *)
(***************************************************************************)
EXTENDS Integers, Sequences, FiniteSets

----------------------------------------------------------------------------
(* Bounds of the model *)

\* Largest slots_to_send a roster row carries.
MaxSlots == 2

\* Largest integer MAX_INCOMING_CAP is set to (besides None).
MaxCap == 3

\* Member names rosters are drawn from.
Names == {"A", "B", "C"}

\* Member names of the four-member spread scenario.
SpreadNames == {"A", "B", "C", "D"}

(* Program constants *)

\* members_df rounds power to one decimal of a million: ten units per million.
PowerScale == 10

\* DEFAULT_SLOTS
DEFAULT_SLOTS == 2

\* Display powers (in tenths of a million) rows are drawn from:
\* 100.0, 100.5, 102.0 and 500.0.
Powers == {100 * PowerScale, 100 * PowerScale + 5, 102 * PowerScale, 500 * PowerScale}

\* MAX_INCOMING_CAP = None is <<>>, MAX_INCOMING_CAP = k is <<k>>.
None == <<>>

\* Values store.assignment_mode is read as; "unknown" stands for any string
\* that is neither of the two modes.
ModeValues == {"balanced", "power_based", "unknown"}

----------------------------------------------------------------------------
(* Helpers *)

Max(a, b) == IF a >= b THEN a ELSE b

Abs(x) == IF x < 0 THEN -x ELSE x

\* math.ceil(a / b) for a >= 0, b >= 1
Ceil(a, b) == (a + b - 1) \div b

\* int(x) of a non-negative display power: truncation to whole millions.
IntPower(p) == p \div PowerScale

\* dict.get(key, default)
Get(d, key, default) == IF key \in DOMAIN d THEN d[key] ELSE default

Range(s) == {s[i] : i \in 1..Len(s)}

\* df["name"].tolist()
NameList(df) == [i \in 1..Len(df) |-> df[i].name]

RECURSIVE SumSlots(_, _)
SumSlots(df, i) == IF i > Len(df) THEN 0 ELSE df[i].slots_to_send + SumSlots(df, i + 1)

\* int(senders["slots_to_send"].sum())
TotalSlots(df) == SumSlots(df, 1)

\* the row of the member called n
Row(df, n) == df[CHOOSE i \in 1..Len(df) : df[i].name = n]

\* All orders of the names of S.
Perms(S) == {f \in [1..Cardinality(S) -> S] : \A i, j \in 1..Cardinality(S) : f[i] = f[j] => i = j}

\* sort_values("power", ascending=False): the rows by descending power.  The
\* default sort is not stable, so rows of equal power come out in any order.
SortedByPowerDesc(df) ==
    {f \in Perms(Range(NameList(df))) :
        \A i, j \in 1..Len(df) : i < j => Row(df, f[i]).power >= Row(df, f[j]).power}

\* Rosters over the names S, as members_df hands them over: one row per name,
\* ordered by descending power.  The rows drawn here have pairwise different
\* display powers (100.0 and 100.5 still truncate to the same whole million).
RostersOver(S, P, K) ==
    {[i \in 1..Cardinality(S) |-> [name |-> o[i], power |-> pw[o[i]], slots_to_send |-> sl[o[i]]]] :
        <<o, pw, sl>> \in {t \in Perms(S) \X [S -> P] \X [S -> K] :
            \A i, j \in 1..Cardinality(S) : i < j => t[2][t[1][i]] > t[2][t[1][j]]}}

----------------------------------------------------------------------------
VARIABLES
    online_df,          \* the roster passed to compute_assignments
    assignment_mode,    \* store.assignment_mode
    MAX_INCOMING_CAP,   \* the configured cap override: None or <<k>>
    pc,                 \* "call", "balanced", "power_based", "done"
    cap,                \* cap of the running algorithm
    remaining,          \* remaining: name -> incoming capacity left
    target_names,       \* balanced: the round-robin base order
    sender_slots,       \* balanced: tickets of the shuffled list not walked yet, name -> count
    target_index,       \* balanced: the persistent cursor
    nearest,            \* power_based: name -> candidate list
    sender_names,       \* power_based: senders of the shuffled list not processed yet
    result,             \* sender -> list of targets
    members,            \* store.members: name -> [power, slots_to_send, online]
    assignments,        \* store.assignments: sender -> list of targets
    batch_id,           \* store.batch_id: None or a time stamp
    locked,             \* store.locked
    lock,               \* store.lock: "free" or the session holding it
    spc,                \* session -> the statement of the script it is at
    loc                 \* session -> the locals of its script run

engineVars == <<online_df, MAX_INCOMING_CAP, pc, cap, remaining,
                target_names, sender_slots, target_index, nearest, sender_names, result>>

storeVars == <<members, assignments, batch_id, locked, lock, spc, loc>>

vars == <<online_df, assignment_mode, MAX_INCOMING_CAP, pc, cap, remaining,
          target_names, sender_slots, target_index, nearest, sender_names, result,
          members, assignments, batch_id, locked, lock, spc, loc>>

Empty == [n \in {} |-> 0]

CapValues == {None} \cup {<<k>> : k \in 1..MaxCap}

Fresh ==
    /\ pc = "call"
    /\ cap = 0
    /\ remaining = Empty
    /\ target_names = <<>>
    /\ sender_slots = Empty
    /\ target_index = 0
    /\ nearest = Empty
    /\ sender_names = {}
    /\ result = Empty

\* Sessions (browser tabs) running the script against the one cached Store.
Sessions == {"s1", "s2"}

\* The locals of a script run that has not assigned any yet.
NoLocals == [df |-> <<>>, current_locked |-> FALSE, mode |-> "", assign_map |-> Empty,
             form |-> <<>>, raised |-> FALSE]

\* lines 100-109: Store.__init__, and no session inside a script run
StoreFresh ==
    /\ members = Empty
    /\ assignments = Empty
    /\ batch_id = None
    /\ locked = FALSE
    /\ lock = "free"
    /\ spc = [s \in Sessions |-> "idle"]
    /\ loc = [s \in Sessions |-> NoLocals]

Init ==
    /\ StoreFresh
    /\ online_df \in UNION {RostersOver(S, Powers, 1..MaxSlots) : S \in SUBSET Names}
    /\ assignment_mode \in ModeValues
    /\ MAX_INCOMING_CAP \in CapValues
    /\ Fresh

----------------------------------------------------------------------------
(* Capacity *)

\* BalancedCap with the extra unit of the power-based formula
BalancedCapPlusOne(df, override) ==
    IF override = None
    THEN Max(1, Ceil(TotalSlots(df), Max(1, Len(df))) + 1)
    ELSE override[1]

\* BalancedCap that never looks at the override
BalancedCapIgnoresOverride(df, override) ==
    Max(1, Ceil(TotalSlots(df), Max(1, Len(df))))

\* lines 202-205: cap of the balanced algorithm
BalancedCap(df, override) ==
    IF override = None
    THEN Max(1, Ceil(TotalSlots(df), Max(1, Len(df))))
    ELSE override[1]

\* lines 240-243: cap of the power-based algorithm
PowerCap(df, override) ==
    IF override = None
    THEN Max(1, Ceil(TotalSlots(df), Max(1, Len(df))) + 1)
    ELSE override[1]

\* remaining = {row["name"]: cap for ...}
InitialRemaining(df, c) == [n \in Range(NameList(df)) |-> c]

\* EmptyResult keyed by every known name instead of the roster's
EmptyResultAllNames(df) == [n \in Names \cup SpreadNames |-> <<>>]

\* result = {s: [] for s in ...}
EmptyResult(df) == [n \in Range(NameList(df)) |-> <<>>]

\* remaining[target] -= 1
Decrement(rem, t) == [rem EXCEPT ![t] = @ - 1]

----------------------------------------------------------------------------
(* compute_assignments *)

\* a frame that is never taken for empty
emptyNever(df) == FALSE

\* line 185: online_df.empty
empty(df) == df = <<>>

\* lines 185-186: an empty roster returns {}
ReturnEmpty ==
    /\ UNCHANGED storeVars
    /\ pc = "call"
    /\ empty(online_df)
    /\ pc' = "done"
    /\ result' = Empty
    /\ UNCHANGED <<online_df, assignment_mode, MAX_INCOMING_CAP, cap, remaining,
                   target_names, sender_slots, target_index, nearest, sender_names>>

----------------------------------------------------------------------------
(* compute_balanced_assignments *)

\* Tickets with one ticket too many per sender
TicketsOffByOne(df) == [n \in Range(NameList(df)) |-> Row(df, n).slots_to_send + 1]

\* lines 212-215: one ticket per slot of every sender
Tickets(df) == [n \in Range(NameList(df)) |-> Row(df, n).slots_to_send]

\* lines 191-192, 198-219: dispatch to the balanced algorithm and set it up
BalancedBegin ==
    /\ UNCHANGED storeVars
    /\ pc = "call"
    /\ ~empty(online_df)
    /\ assignment_mode = "balanced"
    /\ pc' = "balanced"
    /\ cap' = BalancedCap(online_df, MAX_INCOMING_CAP)
    /\ remaining' = InitialRemaining(online_df, cap')
    /\ target_names' \in SortedByPowerDesc(online_df)
    /\ result' = EmptyResult(online_df)
    /\ sender_slots' = Tickets(online_df)
    /\ target_index' = 0
    /\ UNCHANGED <<online_df, assignment_mode, MAX_INCOMING_CAP, nearest, sender_names>>

\* Eligible without the comparison with the sender
EligibleNoSelfCheck(sender, target, rem) == Get(rem, target, 0) > 0

\* line 224: the target under the cursor can take this ticket
Eligible(sender, target, rem) == target # sender /\ Get(rem, target, 0) > 0

\* ScanLimit that stops one target short of a full pass
ScanLimitShort(tn) == Len(tn) - 1

\* line 222: how many targets one ticket examines at most
ScanLimit(tn) == Len(tn)

\* lines 221-230: the scan of one ticket from the cursor idx; found tells whether
\* a target was assigned, index is the cursor afterwards.
RECURSIVE Scan(_, _, _, _, _)
Scan(sender, idx, attempts, tn, rem) ==
    IF attempts >= ScanLimit(tn)
    THEN [found |-> FALSE, target |-> sender, index |-> idx]
    ELSE LET target == tn[(idx % Len(tn)) + 1]
         IN  IF Eligible(sender, target, rem)
             THEN [found |-> TRUE, target |-> target, index |-> idx + 1]
             ELSE Scan(sender, idx + 1, attempts + 1, tn, rem)

\* lines 220-230: the next ticket of the shuffled list is walked
BalancedTicket ==
    /\ UNCHANGED storeVars
    /\ pc = "balanced"
    /\ \E sender \in DOMAIN sender_slots :
        /\ sender_slots[sender] > 0
        /\ sender_slots' = [sender_slots EXCEPT ![sender] = @ - 1]
        /\ LET s == Scan(sender, target_index, 0, target_names, remaining)
           IN  /\ target_index' = s.index
               /\ IF s.found
                  THEN /\ result' = [result EXCEPT ![sender] = Append(@, s.target)]
                       /\ remaining' = Decrement(remaining, s.target)
                  ELSE UNCHANGED <<result, remaining>>
    /\ UNCHANGED <<online_df, assignment_mode, MAX_INCOMING_CAP, pc, cap,
                   target_names, nearest, sender_names>>

\* line 232: all tickets walked
BalancedReturn ==
    /\ UNCHANGED storeVars
    /\ pc = "balanced"
    /\ \A sender \in DOMAIN sender_slots : sender_slots[sender] = 0
    /\ pc' = "done"
    /\ UNCHANGED <<online_df, assignment_mode, MAX_INCOMING_CAP, cap, remaining,
                   target_names, sender_slots, target_index, nearest, sender_names, result>>

----------------------------------------------------------------------------
(* compute_power_based_assignments *)

\* Distance without abs()
DistanceSigned(sp, tp) == IntPower(sp) - IntPower(tp)

\* line 253: the sort key of candidate t for sender s
Distance(sp, tp) == Abs(IntPower(sp) - IntPower(tp))

\* lines 249-253: the other members, in roster order
RECURSIVE Candidates(_, _, _)
Candidates(df, s, i) ==
    IF i > Len(df) THEN <<>>
    ELSE IF df[i].name = s THEN Candidates(df, s, i + 1)
    ELSE <<df[i].name>> \o Candidates(df, s, i + 1)

\* insertion of x into the sorted list l behind every element of a key not larger
RECURSIVE InsertByKey(_, _, _, _)
InsertByKey(x, l, df, sp) ==
    IF l = <<>> THEN <<x>>
    ELSE IF Distance(sp, Row(df, x).power) < Distance(sp, Row(df, l[1]).power)
         THEN <<x>> \o l
         ELSE <<l[1]>> \o InsertByKey(x, Tail(l), df, sp)

\* line 254: cand.sort(key=distance), a stable sort
RECURSIVE StableSort(_, _, _, _)
StableSort(c, i, df, sp) ==
    IF i = 0 THEN <<>>
    ELSE InsertByKey(c[i], StableSort(c, i - 1, df, sp), df, sp)

\* lines 248-255: nearest[s]
Nearest(df, s) ==
    LET c == Candidates(df, s, 1)
    IN  StableSort(c, Len(c), df, Row(df, s).power)

\* line 265: candidate t is taken
Takes(rem, t, res, k) == Get(rem, t, 0) > 0 /\ Len(res) < k

\* lines 264-269: the walk of one sender's candidate list from position i
RECURSIVE Walk(_, _, _, _, _)
Walk(cands, i, k, res, rem) ==
    IF i > Len(cands) THEN [res |-> res, rem |-> rem]
    ELSE LET t == cands[i]
             took == Takes(rem, t, res, k)
             res1 == IF took THEN Append(res, t) ELSE res
             rem1 == IF took THEN Decrement(rem, t) ELSE rem
         IN  IF Len(res1) >= k
             THEN [res |-> res1, rem |-> rem1]
             ELSE Walk(cands, i + 1, k, res1, rem1)

\* lines 193-194, 236-261: dispatch to the power-based algorithm (any mode but
\* "balanced") and set it up
PowerBegin ==
    /\ UNCHANGED storeVars
    /\ pc = "call"
    /\ ~empty(online_df)
    /\ assignment_mode # "balanced"
    /\ pc' = "power_based"
    /\ cap' = PowerCap(online_df, MAX_INCOMING_CAP)
    /\ remaining' = InitialRemaining(online_df, cap')
    /\ nearest' = [s \in Range(NameList(online_df)) |-> Nearest(online_df, s)]
    /\ sender_names' = Range(NameList(online_df))
    /\ result' = EmptyResult(online_df)
    /\ UNCHANGED <<online_df, assignment_mode, MAX_INCOMING_CAP, target_names,
                   sender_slots, target_index>>

\* lines 262-269: the next sender of the shuffled list is processed
PowerSender ==
    /\ UNCHANGED storeVars
    /\ pc = "power_based"
    /\ \E s \in sender_names :
        /\ sender_names' = sender_names \ {s}
        /\ LET k == Row(online_df, s).slots_to_send
               w == Walk(nearest[s], 1, k, result[s], remaining)
           IN  /\ result' = [result EXCEPT ![s] = w.res]
               /\ remaining' = w.rem
    /\ UNCHANGED <<online_df, assignment_mode, MAX_INCOMING_CAP, pc, cap,
                   target_names, sender_slots, target_index, nearest>>

\* line 270: all senders processed
PowerReturn ==
    /\ UNCHANGED storeVars
    /\ pc = "power_based"
    /\ sender_names = {}
    /\ pc' = "done"
    /\ UNCHANGED <<online_df, assignment_mode, MAX_INCOMING_CAP, cap, remaining,
                   target_names, sender_slots, target_index, nearest, sender_names, result>>

----------------------------------------------------------------------------
Next ==
    \/ ReturnEmpty
    \/ BalancedBegin
    \/ BalancedTicket
    \/ BalancedReturn
    \/ PowerBegin
    \/ PowerSender
    \/ PowerReturn

Spec == Init /\ [][Next]_vars

----------------------------------------------------------------------------
(* The spread scenario: compute_balanced_assignments on four members with   *)
(* DEFAULT_SLOTS slots each, in every power order, with the automatic cap   *)
(* or a cap override equal to the total slot demand.                        *)

InitSpread ==
    /\ StoreFresh
    /\ online_df \in RostersOver(SpreadNames, Powers, {DEFAULT_SLOTS})
    /\ assignment_mode = "balanced"
    /\ MAX_INCOMING_CAP \in {None, <<TotalSlots(online_df)>>}
    /\ Fresh

NextBalanced ==
    \/ BalancedBegin
    \/ BalancedTicket
    \/ BalancedReturn

SpecSpread == InitSpread /\ [][NextBalanced]_vars

----------------------------------------------------------------------------
(* The fractional scenario: compute_power_based_assignments on members whose *)
(* displayed powers (line 174, one decimal) differ by less than a million.   *)

FractionalPowers == {98 * PowerScale, 100 * PowerScale, 100 * PowerScale + 5}

InitFractional ==
    /\ StoreFresh
    /\ online_df \in UNION {RostersOver(S, FractionalPowers, 1..MaxSlots) :
                                S \in SUBSET Names \ {{}}}
    /\ assignment_mode = "power_based"
    /\ MAX_INCOMING_CAP \in CapValues
    /\ Fresh

NextPowerBased ==
    \/ PowerBegin
    \/ PowerSender
    \/ PowerReturn

SpecFractional == InitFractional /\ [][NextPowerBased]_vars

----------------------------------------------------------------------------
(* compute_assignments as one call: every result some shuffle order yields *)

RECURSIVE BalancedRuns(_, _, _, _, _)
\* lines 220-232: the results of walking the tickets left, in every order
BalancedRuns(tickets, idx, tn, rem, res) ==
    IF \A n \in DOMAIN tickets : tickets[n] = 0 THEN {res}
    ELSE UNION {LET sc == Scan(sender, idx, 0, tn, rem)
                IN  BalancedRuns([tickets EXCEPT ![sender] = @ - 1], sc.index, tn,
                                 IF sc.found THEN Decrement(rem, sc.target) ELSE rem,
                                 IF sc.found THEN [res EXCEPT ![sender] = Append(@, sc.target)]
                                             ELSE res) :
                sender \in {n \in DOMAIN tickets : tickets[n] > 0}}

\* lines 196-232: compute_balanced_assignments
BalancedResults(df, override) ==
    UNION {BalancedRuns(Tickets(df), 0, tn, InitialRemaining(df, BalancedCap(df, override)),
                        EmptyResult(df)) : tn \in SortedByPowerDesc(df)}

RECURSIVE PowerRuns(_, _, _, _)
\* lines 262-270: the results of processing the senders left, in every order
PowerRuns(pending, df, rem, res) ==
    IF pending = {} THEN {res}
    ELSE UNION {LET w == Walk(Nearest(df, s), 1, Row(df, s).slots_to_send, res[s], rem)
                IN  PowerRuns(pending \ {s}, df, w.rem, [res EXCEPT ![s] = w.res]) :
                s \in pending}

\* lines 234-270: compute_power_based_assignments
PowerResults(df, override) ==
    PowerRuns(Range(NameList(df)), df, InitialRemaining(df, PowerCap(df, override)),
              EmptyResult(df))

\* lines 185-194: compute_assignments, given the mode it read from the store
ComputeResults(df, mode, override) ==
    IF empty(df) THEN {Empty}
    ELSE IF mode = "balanced" THEN BalancedResults(df, override)
    ELSE PowerResults(df, override)

----------------------------------------------------------------------------
(* parse_power.  A text is a sequence of characters. *)

Digits == {"0", "1", "2", "3", "4", "5", "6", "7", "8", "9"}

DigitValue(c) ==
    CASE c = "0" -> 0 [] c = "1" -> 1 [] c = "2" -> 2 [] c = "3" -> 3 [] c = "4" -> 4
      [] c = "5" -> 5 [] c = "6" -> 6 [] c = "7" -> 7 [] c = "8" -> 8 [] c = "9" -> 9

\* str.upper() on the characters used here
Upper(t) == [i \in 1..Len(t) |-> IF t[i] = "m" THEN "M" ELSE t[i]]

RECURSIVE LStrip(_)
LStrip(t) == IF t # <<>> /\ t[1] = " " THEN LStrip(Tail(t)) ELSE t

RECURSIVE RStrip(_)
RStrip(t) == IF t # <<>> /\ t[Len(t)] = " " THEN RStrip(SubSeq(t, 1, Len(t) - 1)) ELSE t

\* str.strip()
Strip(t) == RStrip(LStrip(t))

\* str.replace(c, "")
Without(t, c) == SelectSeq(t, LAMBDA x : x # c)

\* str.isdigit()
IsDigit(t) == t # <<>> /\ \A i \in 1..Len(t) : t[i] \in Digits

RECURSIVE IntOf(_)
\* the number a string of digits denotes ("" is 0)
IntOf(t) == IF t = <<>> THEN 0 ELSE 10 * IntOf(SubSeq(t, 1, Len(t) - 1)) + DigitValue(t[Len(t)])

\* the decimal texts float() accepts among those made of digits, ".", "M" and " "
IsFloat(t) ==
    /\ \A i \in 1..Len(t) : t[i] \in Digits \cup {"."}
    /\ Cardinality({i \in 1..Len(t) : t[i] = "."}) <= 1
    /\ \E i \in 1..Len(t) : t[i] \in Digits

\* int(float(t) * 1_000_000) for a text IsFloat accepts
Millionfold(t) ==
    LET dots  == {i \in 1..Len(t) : t[i] = "."}
        dot   == IF dots = {} THEN Len(t) + 1 ELSE CHOOSE i \in dots : TRUE
        whole == SubSeq(t, 1, dot - 1)
        frac  == SubSeq(SubSeq(t, dot + 1, Len(t)) \o <<"0", "0", "0", "0", "0", "0">>, 1, 6)
    IN  IntOf(whole) * 1000000 + IntOf(frac)

\* lines 125-133: parse_power of a text; ok is FALSE where float() raises ValueError
parse_power(power_input) ==
    LET power_str == Upper(Strip(power_input))
        base == IF power_str # <<>> /\ power_str[Len(power_str)] = "M"
                THEN SubSeq(power_str, 1, Len(power_str) - 1)
                ELSE power_str
    IN  IF IsFloat(base) THEN [ok |-> TRUE, value |-> Millionfold(base)]
        ELSE [ok |-> FALSE, value |-> 0]

\* line 174: (power / 1_000_000).round(1), in tenths of a million
DisplayPower(raw) == (raw * PowerScale + 500000) \div 1000000

----------------------------------------------------------------------------
(* The store's operations, each the body of its "with store.lock" block *)

\* upsert_member, had it stored the record before the power is parsed
upsert_memberStoresFirst(mem, name, power, slots, online) ==
    LET p == parse_power(power)
        rec == [power |-> p.value, slots_to_send |-> slots, online |-> online]
    IN  [raised |-> ~p.ok,
         members |-> [n \in DOMAIN mem \cup {name} |-> IF n = name THEN rec ELSE mem[n]]]

\* lines 138-147: upsert_member; raised where parse_power raises, before
\* rec.update runs
upsert_member(mem, name, power, slots, online) ==
    LET p == parse_power(power)
        rec == [power |-> p.value, slots_to_send |-> slots, online |-> online]
    IN  IF p.ok
        THEN [raised |-> FALSE,
              members |-> [n \in DOMAIN mem \cup {name} |-> IF n = name THEN rec ELSE mem[n]]]
        ELSE [raised |-> TRUE, members |-> mem]

\* lines 151-153: set_all_online
set_all_online(mem, status) == [n \in DOMAIN mem |-> [mem[n] EXCEPT !.online = status]]

\* lines 156-176: members_df, the frames it may return: one row per member,
\* by descending power (rows of equal power in any order), power for display
members_df(mem) ==
    {[i \in 1..Cardinality(DOMAIN mem) |->
        [name |-> o[i], power |-> DisplayPower(mem[o[i]].power),
         slots_to_send |-> mem[o[i]].slots_to_send, online |-> mem[o[i]].online]] :
        o \in {f \in Perms(DOMAIN mem) :
                \A i, j \in 1..Cardinality(DOMAIN mem) :
                    i < j => mem[f[i]].power >= mem[f[j]].power}}

\* line 480: df[df["online"]]
OnlineRows(df) == SelectSeq(df, LAMBDA r : r.online)

\* the time stamp datetime.utcnow().strftime(...) yields
BatchStamp == <<"%Y-%m-%d %H:%M:%S">>

\* save_assignments that updates the saved mapping instead of replacing it
save_assignmentsMerging(assign_map) ==
    [k \in DOMAIN assign_map \cup DOMAIN assignments |->
        IF k \in DOMAIN assign_map THEN assign_map[k] ELSE assignments[k]]

\* line 274: {k: list(v) for k, v in assign_map.items()}
save_assignments(assign_map) == [k \in DOMAIN assign_map |-> assign_map[k]]

RECURSIVE RemoveFirst(_, _)
\* list.remove(x): the first occurrence goes
RemoveFirst(l, x) ==
    IF l = <<>> THEN <<>>
    ELSE IF l[1] = x THEN Tail(l)
    ELSE <<l[1]>> \o RemoveFirst(Tail(l), x)

\* lines 309-311: name is taken out of a target list that holds it
RemoveTarget(targets, name) ==
    IF name \in Range(targets) THEN RemoveFirst(targets, name) ELSE targets

\* lines 303-311: remove_member
remove_member(mem, asg, name) ==
    IF name \in DOMAIN mem
    THEN [members |-> [n \in DOMAIN mem \ {name} |-> mem[n]],
          assignments |-> [k \in DOMAIN asg \ {name} |-> RemoveTarget(asg[k], name)]]
    ELSE [members |-> mem, assignments |-> asg]

\* reset_event that forgets to clear batch_id
reset_eventKeepsBatchId(mem, asg, bid, lk) ==
    [members |-> Empty, assignments |-> Empty, batch_id |-> bid, locked |-> FALSE]

\* lines 315-318: reset_event
reset_event(mem, asg, bid, lk) ==
    [members |-> Empty, assignments |-> Empty, batch_id |-> None, locked |-> FALSE]

----------------------------------------------------------------------------
(* The store's functions called one at a time by a single caller, each call  *)
(* atomic: it takes store.lock, runs its block and releases the lock.        *)
(* spc[Caller] names the function the caller returned from last.             *)

\* Names typed into the registration form (at least two characters each).
StoreNames == {"Ann", "Bob"}

\* Texts typed into the power field: "100", "100.5M", "1.2.3" and "100m".
PowerTexts == {<<"1", "0", "0">>, <<"1", "0", "0", ".", "5", "M">>,
               <<"1", ".", "2", ".", "3">>, <<"1", "0", "0", "m">>}

\* line 384: the slot options of the form, up to the bound
SlotOptions == DEFAULT_SLOTS..MaxSlots

\* lines 559-560: the modes the selector offers
ModeOptions == {"balanced", "power_based"}

Caller == "s1"

\* the engine is not running and has the configuration of the source
EngineIdle ==
    /\ online_df = <<>>
    /\ MAX_INCOMING_CAP = None
    /\ Fresh

\* lines 100-109: Store.__init__
InitStore ==
    /\ EngineIdle
    /\ assignment_mode = "balanced"
    /\ StoreFresh

Returned(fn) == spc' = [spc EXCEPT ![Caller] = fn]

\* line 457 -> lines 135-147: upsert_member(name, power, slots, True)
StoreUpsert ==
    /\ lock = "free"
    /\ \E name \in StoreNames, power \in PowerTexts, slots \in SlotOptions :
        LET r == upsert_member(members, name, power, slots, TRUE)
        IN  /\ members' = r.members
            /\ loc' = [loc EXCEPT ![Caller].raised = r.raised]
    /\ Returned("upsert_member")
    /\ UNCHANGED <<engineVars, assignment_mode, assignments, batch_id, locked, lock>>

\* lines 149-153: set_all_online(status)
StoreSetAllOnline ==
    /\ lock = "free"
    /\ \E status \in BOOLEAN : members' = set_all_online(members, status)
    /\ Returned("set_all_online")
    /\ UNCHANGED <<engineVars, assignment_mode, assignments, batch_id, locked, lock, loc>>

\* lines 480-482 -> 272-275: save_assignments of a result computed from the
\* online rows of the current members
StoreSave ==
    /\ lock = "free"
    /\ \E df \in members_df(members) :
        \E assign_map \in ComputeResults(OnlineRows(df), assignment_mode, MAX_INCOMING_CAP) :
            assignments' = save_assignments(assign_map)
    /\ batch_id' = BatchStamp
    /\ Returned("save_assignments")
    /\ UNCHANGED <<engineVars, assignment_mode, members, locked, lock, loc>>

\* line 534 -> lines 301-311: remove_member(name)
StoreRemove ==
    /\ lock = "free"
    /\ \E name \in StoreNames :
        LET r == remove_member(members, assignments, name)
        IN  /\ members' = r.members
            /\ assignments' = r.assignments
    /\ Returned("remove_member")
    /\ UNCHANGED <<engineVars, assignment_mode, batch_id, locked, lock, loc>>

\* line 601 -> lines 313-318: reset_event()
StoreReset ==
    /\ lock = "free"
    /\ LET r == reset_event(members, assignments, batch_id, locked)
       IN  /\ members' = r.members
           /\ assignments' = r.assignments
           /\ batch_id' = r.batch_id
           /\ locked' = r.locked
    /\ Returned("reset_event")
    /\ UNCHANGED <<engineVars, assignment_mode, lock, loc>>

\* lines 571-572: store.assignment_mode = new_mode
StoreSetMode ==
    /\ lock = "free"
    /\ \E new_mode \in ModeOptions : assignment_mode' = new_mode
    /\ Returned("set_mode")
    /\ UNCHANGED <<engineVars, members, assignments, batch_id, locked, lock, loc>>

\* lines 585-586: store.locked = new_locked
StoreSetLocked ==
    /\ lock = "free"
    /\ \E new_locked \in BOOLEAN : locked' = new_locked
    /\ Returned("set_locked")
    /\ UNCHANGED <<engineVars, assignment_mode, members, assignments, batch_id, lock, loc>>

NextStore ==
    \/ StoreUpsert
    \/ StoreSetAllOnline
    \/ StoreSave
    \/ StoreRemove
    \/ StoreReset
    \/ StoreSetMode
    \/ StoreSetLocked

SpecStore == InitStore /\ [][NextStore]_vars

----------------------------------------------------------------------------
(* The script run by concurrent sessions against the shared store.  A block  *)
(* "with store.lock" that only reads is one step, taken while the lock is    *)
(* free; a block that writes is entered in one step (the lock is taken) and  *)
(* run and left in the next.  Statements that touch no shared state belong   *)
(* to the step of the shared access before them.  A local is kept only      *)
(* while a later statement of the run still reads it.  Coordinates and       *)
(* updated_at are left out: no statement modelled here reads them.           *)

Goto(s, label) == spc' = [spc EXCEPT ![s] = label]

\* the script run of s ends: its locals are gone
Finish(s) ==
    /\ spc' = [spc EXCEPT ![s] = "idle"]
    /\ loc' = [loc EXCEPT ![s] = NoLocals]

Acquire(s) == lock = "free" /\ lock' = s

Release(s) == lock = s /\ lock' = "free"

\* the power texts typed into the form: a number, one that passes the check of
\* line 430 and is no number, one that the check rejects
FormTexts ==
    {<<"1", "0", "0">>, <<"1", ".", "2", ".", "3">>, <<"1", "0", "0", "m">>}

\* lines 424-432: the checks of the name and power fields (the name typed is
\* one of StoreNames or blank)
FieldErrors(name, power) ==
    \/ name = ""
    \/ Strip(power) = <<>>
    \/ ~IsDigit(Without(Without(power, "."), "M"))

\* lines 413-452: a submitted form; the board lock is read, the fields checked
Register(s) ==
    /\ spc[s] = "idle"
    /\ lock = "free"
    /\ \E name \in StoreNames \cup {""}, power \in FormTexts, slots \in SlotOptions,
          coords_ok \in BOOLEAN :
        IF locked \/ FieldErrors(name, power) \/ ~coords_ok
        THEN UNCHANGED <<spc, loc>>
        ELSE /\ Goto(s, "upsert")
             /\ loc' = [loc EXCEPT ![s].form = <<name, power, slots>>]
    /\ UNCHANGED <<engineVars, assignment_mode, members, assignments, batch_id, locked, lock>>

\* line 137: upsert_member takes the lock
UpsertEnter(s) ==
    /\ spc[s] = "upsert"
    /\ Acquire(s)
    /\ Goto(s, "upsert_in")
    /\ UNCHANGED <<engineVars, assignment_mode, members, assignments, batch_id, locked, loc>>

\* the lock as the with statement leaves it, returning or raising
WithExit(s, raised) == "free"

\* lines 138-147: the block of upsert_member; the with statement releases the
\* lock whether the block returns or raises
UpsertBody(s) ==
    /\ spc[s] = "upsert_in"
    /\ lock = s
    /\ LET f == loc[s].form
           r == upsert_member(members, f[1], f[2], f[3], TRUE)
       IN  /\ members' = r.members
           /\ loc' = [loc EXCEPT ![s] = [NoLocals EXCEPT !.raised = r.raised]]
           /\ lock' = WithExit(s, r.raised)
    /\ Goto(s, "reg_done")
    /\ UNCHANGED <<engineVars, assignment_mode, assignments, batch_id, locked>>

\* lines 458-460: success or the ValueError is reported
RegisterReport(s) ==
    /\ spc[s] = "reg_done"
    /\ Finish(s)
    /\ UNCHANGED <<engineVars, assignment_mode, members, assignments, batch_id, locked, lock>>

\* line 462: df = members_df()
Snapshot(s) ==
    /\ spc[s] = "idle"
    /\ lock = "free"
    /\ \E df \in members_df(members) : loc' = [loc EXCEPT ![s].df = df]
    /\ Goto(s, "top")
    /\ UNCHANGED <<engineVars, assignment_mode, members, assignments, batch_id, locked, lock>>

\* lines 465-466: current_locked = store.locked
ReadLocked(s) ==
    /\ spc[s] = "top"
    /\ lock = "free"
    /\ loc' = [loc EXCEPT ![s].current_locked = locked]
    /\ Goto(s, "script")
    /\ UNCHANGED <<engineVars, assignment_mode, members, assignments, batch_id, locked, lock>>

\* lines 478-480: the Recalculate button, enabled while not current_locked
ClickRecalculate(s) ==
    /\ spc[s] = "script"
    /\ ~loc[s].current_locked
    /\ loc' = [loc EXCEPT ![s] = [NoLocals EXCEPT !.df = OnlineRows(loc[s].df)]]
    /\ Goto(s, "compute")
    /\ UNCHANGED <<engineVars, assignment_mode, members, assignments, batch_id, locked, lock>>

\* line 481: compute_assignments reads the mode under the lock (unless the
\* roster is empty) and computes
Compute(s) ==
    /\ spc[s] = "compute"
    /\ loc[s].df = <<>> \/ lock = "free"
    /\ \E assign_map \in ComputeResults(loc[s].df, assignment_mode, MAX_INCOMING_CAP) :
        loc' = [loc EXCEPT ![s] = [NoLocals EXCEPT !.assign_map = assign_map]]
    /\ Goto(s, "save")
    /\ UNCHANGED <<engineVars, assignment_mode, members, assignments, batch_id, locked, lock>>

\* line 273: save_assignments takes the lock
SaveEnter(s) ==
    /\ spc[s] = "save"
    /\ Acquire(s)
    /\ Goto(s, "save_in")
    /\ UNCHANGED <<engineVars, assignment_mode, members, assignments, batch_id, locked, loc>>

\* lines 274-275: the block of save_assignments
SaveBody(s) ==
    /\ spc[s] = "save_in"
    /\ Release(s)
    /\ assignments' = save_assignments(loc[s].assign_map)
    /\ batch_id' = BatchStamp
    /\ Goto(s, "report")
    /\ loc' = [loc EXCEPT ![s] = NoLocals]
    /\ UNCHANGED <<engineVars, assignment_mode, members, locked>>

\* line 483: store.batch_id is read for the message, without the lock
ReportBatch(s) ==
    /\ spc[s] = "report"
    /\ Finish(s)
    /\ UNCHANGED <<engineVars, assignment_mode, members, assignments, batch_id, locked, lock>>

\* lines 486-511: saved = assignments_df(), then the branch on saved.empty
ViewSaved(s) ==
    /\ spc[s] = "script"
    /\ lock = "free"
    /\ IF assignments # Empty
       THEN Goto(s, "show_batch") /\ loc' = [loc EXCEPT ![s] = NoLocals]
       ELSE IF OnlineRows(loc[s].df) # <<>>
       THEN Goto(s, "preview") /\ loc' = [loc EXCEPT ![s] = NoLocals]
       ELSE Finish(s)
    /\ UNCHANGED <<engineVars, assignment_mode, members, assignments, batch_id, locked, lock>>

\* line 490: the preview's compute_assignments reads the mode under the lock
\* (lines 188-189); pre_map is only displayed
PreviewCompute(s) ==
    /\ spc[s] = "preview"
    /\ lock = "free"
    /\ loc' = [loc EXCEPT ![s] = NoLocals]
    /\ Goto(s, "preview_coords")
    /\ UNCHANGED <<engineVars, assignment_mode, members, assignments, batch_id, locked, lock>>

\* lines 493-496: store.members is iterated for the coordinates, without the lock
PreviewReadMembers(s) ==
    /\ spc[s] = "preview_coords"
    /\ Finish(s)
    /\ UNCHANGED <<engineVars, assignment_mode, members, assignments, batch_id, locked, lock>>

\* lines 512-513: store.batch_id is read for the caption, without the lock
ShowBatch(s) ==
    /\ spc[s] = "show_batch"
    /\ Finish(s)
    /\ UNCHANGED <<engineVars, assignment_mode, members, assignments, batch_id, locked, lock>>

\* lines 528-534, 302: a Remove button of a row of df; remove_member takes the lock
RemoveEnter(s) ==
    /\ spc[s] = "script"
    /\ Acquire(s)
    /\ \E name \in Range(NameList(OnlineRows(loc[s].df))) :
        loc' = [loc EXCEPT ![s] = [NoLocals EXCEPT !.form = <<name>>]]
    /\ Goto(s, "remove_in")
    /\ UNCHANGED <<engineVars, assignment_mode, members, assignments, batch_id, locked>>

\* lines 303-311, 536: the block of remove_member, then st.rerun()
RemoveBody(s) ==
    /\ spc[s] = "remove_in"
    /\ Release(s)
    /\ LET r == remove_member(members, assignments, loc[s].form[1])
       IN  /\ members' = r.members
           /\ assignments' = r.assignments
    /\ Finish(s)
    /\ UNCHANGED <<engineVars, assignment_mode, batch_id, locked>>

\* lines 556-570: the mode is read under the lock; the selector holds another
ModeSelect(s) ==
    /\ spc[s] = "idle"
    /\ lock = "free"
    /\ \E new_mode \in ModeOptions \ {assignment_mode} :
        loc' = [loc EXCEPT ![s].mode = new_mode]
    /\ Goto(s, "mode_write")
    /\ UNCHANGED <<engineVars, assignment_mode, members, assignments, batch_id, locked, lock>>

\* line 571
ModeEnter(s) ==
    /\ spc[s] = "mode_write"
    /\ Acquire(s)
    /\ Goto(s, "mode_in")
    /\ UNCHANGED <<engineVars, assignment_mode, members, assignments, batch_id, locked, loc>>

\* line 572: store.assignment_mode = new_mode
ModeWrite(s) ==
    /\ spc[s] = "mode_in"
    /\ Release(s)
    /\ assignment_mode' = loc[s].mode
    /\ Finish(s)
    /\ UNCHANGED <<engineVars, members, assignments, batch_id, locked>>

\* lines 576-584: the board lock is read under the lock; the toggle is flipped
LockToggle(s) ==
    /\ spc[s] = "idle"
    /\ lock = "free"
    /\ loc' = [loc EXCEPT ![s].current_locked = ~locked]
    /\ Goto(s, "locked_write")
    /\ UNCHANGED <<engineVars, assignment_mode, members, assignments, batch_id, locked, lock>>

\* line 585
LockedEnter(s) ==
    /\ spc[s] = "locked_write"
    /\ Acquire(s)
    /\ Goto(s, "locked_in")
    /\ UNCHANGED <<engineVars, assignment_mode, members, assignments, batch_id, locked, loc>>

\* line 586: store.locked = new_locked
LockedWrite(s) ==
    /\ spc[s] = "locked_in"
    /\ Release(s)
    /\ locked' = loc[s].current_locked
    /\ Finish(s)
    /\ UNCHANGED <<engineVars, assignment_mode, members, assignments, batch_id>>

\* lines 595-601, 314: the Reset Event button; reset_event takes the lock
ResetEnter(s) ==
    /\ spc[s] = "idle"
    /\ Acquire(s)
    /\ Goto(s, "reset_in")
    /\ UNCHANGED <<engineVars, assignment_mode, members, assignments, batch_id, locked, loc>>

\* lines 315-318: the block of reset_event
ResetBody(s) ==
    /\ spc[s] = "reset_in"
    /\ Release(s)
    /\ LET r == reset_event(members, assignments, batch_id, locked)
       IN  /\ members' = r.members
           /\ assignments' = r.assignments
           /\ batch_id' = r.batch_id
           /\ locked' = r.locked
    /\ Finish(s)
    /\ UNCHANGED <<engineVars, assignment_mode>>

NextSessions ==
    \E s \in Sessions :
        \/ Register(s)
        \/ UpsertEnter(s)
        \/ UpsertBody(s)
        \/ RegisterReport(s)
        \/ Snapshot(s)
        \/ ReadLocked(s)
        \/ ClickRecalculate(s)
        \/ Compute(s)
        \/ SaveEnter(s)
        \/ SaveBody(s)
        \/ ReportBatch(s)
        \/ ViewSaved(s)
        \/ PreviewCompute(s)
        \/ PreviewReadMembers(s)
        \/ ShowBatch(s)
        \/ RemoveEnter(s)
        \/ RemoveBody(s)
        \/ ModeSelect(s)
        \/ ModeEnter(s)
        \/ ModeWrite(s)
        \/ LockToggle(s)
        \/ LockedEnter(s)
        \/ LockedWrite(s)
        \/ ResetEnter(s)
        \/ ResetBody(s)

SpecSessions == InitStore /\ [][NextSessions]_vars

----------------------------------------------------------------------------
(* Properties of the result *)

RosterNames == Range(NameList(online_df))

Slots(s) == Row(online_df, s).slots_to_send

KnownMode == assignment_mode \in {"balanced", "power_based"}

\* how often t occurs in the list l
CountIn(l, t) == Cardinality({i \in 1..Len(l) : l[i] = t})

RECURSIVE SumCount(_, _, _)
SumCount(res, keys, t) ==
    IF keys = {} THEN 0
    ELSE LET k == CHOOSE x \in keys : TRUE
         IN  CountIn(res[k], t) + SumCount(res, keys \ {k}, t)

\* how often t occurs across all target lists of res
Incoming(res, t) == SumCount(res, DOMAIN res, t)

\* the capacity spec section 4.1 states for a run without override
StatedCap ==
    IF assignment_mode = "balanced"
    THEN Max(1, Ceil(TotalSlots(online_df), Max(1, Len(online_df))))
    ELSE Max(1, Ceil(TotalSlots(online_df), Max(1, Len(online_df))) + 1)

\* largest minus smallest incoming count over the roster
Spread ==
    LET counts == {Incoming(result, n) : n \in RosterNames}
    IN  (CHOOSE x \in counts : \A y \in counts : y <= x)
        - (CHOOSE x \in counts : \A y \in counts : y >= x)

\* C1: at every point of a run on a non-empty roster, in any mode and for any
\* shuffle order, no sender occurs in its own target list.
C1_NoSelfAssignment ==
    \A s \in DOMAIN result : \A i \in 1..Len(result[s]) : result[s][i] # s

\* A balanced run on three members ended with every sender served although the
\* cursor examined more targets than there were tickets: targets were skipped.
C1_Witness ==
    /\ pc = "done"
    /\ assignment_mode = "balanced"
    /\ Len(online_df) = 3
    /\ \A s \in RosterNames : Len(result[s]) = Slots(s)
    /\ target_index > TotalSlots(online_df)

\* C2: without a cap override, in balanced and in power_based mode, no name
\* occurs across all target lists more often than the capacity stated for the
\* mode: max(1, ceil(T/max(1,N))), plus one inside the max for power_based.
C2_CapacityBound ==
    (MAX_INCOMING_CAP = None /\ KnownMode) =>
        \A t \in RosterNames : Incoming(result, t) <= StatedCap

\* A power-based run without override ended with a target filled to the stated
\* capacity.
C2_Witness ==
    /\ pc = "done"
    /\ MAX_INCOMING_CAP = None
    /\ assignment_mode = "power_based"
    /\ \E t \in RosterNames : Incoming(result, t) = StatedCap

\* C3: in any mode and at every point of a run, no sender has more targets than
\* its slots_to_send.
C3_SlotBound ==
    \A s \in DOMAIN result : Len(result[s]) <= Slots(s)

\* A run ended with one sender at its quota and another below it.
C3_Witness ==
    /\ pc = "done"
    /\ \E s, u \in RosterNames : Len(result[s]) = Slots(s) /\ Len(result[u]) < Slots(u)

\* C4: every key of the result and every element of a target list is the name of
\* a row of the roster passed in.
C4_ReferentialIntegrity ==
    /\ DOMAIN result \subseteq RosterNames
    /\ \A s \in DOMAIN result : Range(result[s]) \subseteq RosterNames

\* A run on a roster of two of the three names ended with targets assigned.
C4_Witness ==
    /\ pc = "done"
    /\ Len(online_df) = 2
    /\ DOMAIN result = RosterNames
    /\ \A s \in RosterNames : result[s] # <<>>

\* C5: with MAX_INCOMING_CAP = k >= 1, in any mode, no name occurs more than k
\* times across all target lists.
C5_CapOverrideHonored ==
    MAX_INCOMING_CAP # None =>
        \A t \in RosterNames : Incoming(result, t) <= MAX_INCOMING_CAP[1]

\* A balanced run with an override below the automatic capacity ended with a
\* target at the override and a sender short of its slots.
C5_Witness ==
    /\ pc = "done"
    /\ assignment_mode = "balanced"
    /\ MAX_INCOMING_CAP # None
    /\ MAX_INCOMING_CAP[1] < BalancedCapIgnoresOverride(online_df, MAX_INCOMING_CAP)
    /\ \E t \in RosterNames : Incoming(result, t) = MAX_INCOMING_CAP[1]
    /\ \E s \in RosterNames : Len(result[s]) < Slots(s)

\* C6: with a mode that is neither "balanced" nor "power_based", a call on a
\* non-empty roster ends in a configuration error: it never enters an algorithm
\* and never returns a result.
C6_UnknownModeFails ==
    (~KnownMode /\ online_df # <<>> /\ pc # "call") => pc = "error"

\* C7 as stated: a sender that ends the run below its slots_to_send leaves every
\* other member with exactly cap incoming.
C7_ShortOnlyWhenExhausted ==
    pc = "done" =>
        \A s \in RosterNames : Len(result[s]) < Slots(s) =>
            \A t \in RosterNames \ {s} : Incoming(result, t) = cap

\* C7 amended: a sender that ends the run below its slots_to_send leaves every
\* other member either with exactly cap incoming or, when the power-based
\* algorithm ran, among its own targets.
C7_ShortOnlyWhenExhaustedOrAssigned ==
    pc = "done" =>
        \A s \in RosterNames : Len(result[s]) < Slots(s) =>
            \A t \in RosterNames \ {s} :
                \/ Incoming(result, t) = cap
                \/ assignment_mode # "balanced" /\ t \in Range(result[s])

\* A balanced run of three members ended with a sender below its slots.
C7_Witness ==
    /\ pc = "done"
    /\ assignment_mode = "balanced"
    /\ Len(online_df) = 3
    /\ \E s \in RosterNames : Len(result[s]) < Slots(s)

\* the roster A (100), B (102), C (500) with one slot each
ClosenessRoster ==
    /\ RosterNames = {"A", "B", "C"}
    /\ Row(online_df, "A").power = 100 * PowerScale
    /\ Row(online_df, "B").power = 102 * PowerScale
    /\ Row(online_df, "C").power = 500 * PowerScale
    /\ \A s \in RosterNames : Slots(s) = 1

AmpleCap == MAX_INCOMING_CAP = None \/ MAX_INCOMING_CAP[1] >= 2

\* C8: on the roster A (100), B (102), C (500) with one slot each, power_based
\* mode with the automatic capacity or an override of at least 2 ends with
\* result[A] = [B] and result[B] = [A], whatever the order of the senders.
C8_PowerCloseness ==
    (pc = "done" /\ assignment_mode = "power_based" /\ Len(online_df) = 3
        /\ ClosenessRoster /\ AmpleCap) =>
        (result["A"] = <<"B">> /\ result["B"] = <<"A">>)

\* The run on that roster ended with B taken twice, by A and by C.
C8_Witness ==
    /\ pc = "done"
    /\ assignment_mode = "power_based"
    /\ Len(online_df) = 3
    /\ ClosenessRoster
    /\ AmpleCap
    /\ result["C"] = <<"B">>
    /\ remaining["B"] = cap - 2

\* four members with two slots each, balanced
SpreadRoster ==
    /\ Len(online_df) = 4
    /\ \A s \in RosterNames : Slots(s) = 2
    /\ assignment_mode = "balanced"

\* C9: four members with two slots each, balanced mode, automatic capacity: at
\* the end of the run the largest and the smallest incoming count differ by at
\* most 1, for every ticket order and every power order.
C9_SpreadAutoCap ==
    (pc = "done" /\ SpreadRoster /\ MAX_INCOMING_CAP = None) => Spread <= 1

\* Such a run ended with a ticket dropped: one member has one incoming less.
C9_Witness ==
    /\ pc = "done"
    /\ SpreadRoster
    /\ MAX_INCOMING_CAP = None
    /\ Spread = 1

\* C10: four members with two slots each, balanced mode, a cap override of at
\* least the total slot demand: at the end of the run the largest and the
\* smallest incoming count differ by at most 1.
C10_SpreadGenerousCap ==
    (pc = "done" /\ SpreadRoster /\ MAX_INCOMING_CAP # None
        /\ MAX_INCOMING_CAP[1] >= TotalSlots(online_df)) => Spread <= 1

\* C15: compute_assignments on an empty roster returns an empty mapping
\* whatever the configured mode, without running the balanced or the
\* power-based algorithm: the call goes straight to its return and nothing
\* either algorithm sets up is ever set.
C15_EmptyRosterEmptyResult ==
    online_df = <<>> =>
        /\ pc \in {"call", "done"}
        /\ result = Empty
        /\ cap = 0
        /\ remaining = Empty
        /\ target_names = <<>>
        /\ sender_slots = Empty
        /\ nearest = Empty
        /\ sender_names = {}

\* an empty roster has been computed under a mode other than "balanced" and
\* with a cap override
C15_Witness ==
    /\ online_df = <<>>
    /\ pc = "done"
    /\ assignment_mode = "power_based"
    /\ MAX_INCOMING_CAP # None

\* C16: for a roster of a single member A, with any slots_to_send,
\* compute_assignments returns exactly {A: []} in both modes, and the run
\* always reaches its return.
C16_SingleMemberNoTargets ==
    (Len(online_df) = 1 /\ KnownMode) =>
        /\ pc = "done" => result = [n \in RosterNames |-> <<>>]
        /\ pc # "done" => ENABLED Next

\* a single member with the most slots has been computed in balanced mode,
\* the cursor having passed over the member for every ticket
C16_Witness ==
    /\ Len(online_df) = 1
    /\ pc = "done"
    /\ assignment_mode = "balanced"
    /\ Slots(online_df[1].name) = MaxSlots
    /\ target_index = MaxSlots
    /\ DOMAIN result = RosterNames

\* the power distance of two members of the roster, in tenths of a million
PowerDistance(s, t) == Abs(Row(online_df, s).power - Row(online_df, t).power)

\* C17: power-based assignment is nearest-first subject to capacity: at the
\* end of a run, for every sender s and every other member u not in result[s],
\* either s reached its quota and no target of s is farther from s than u, or
\* u ends the run with exactly cap incoming.
C17_NearestFirst ==
    (pc = "done" /\ assignment_mode = "power_based") =>
        \A s \in RosterNames : \A u \in RosterNames \ ({s} \cup Range(result[s])) :
            \/ /\ Len(result[s]) = Slots(s)
               /\ \A t \in Range(result[s]) : PowerDistance(s, t) <= PowerDistance(s, u)
            \/ Incoming(result, u) = cap

\* C21: in both modes, for every roster and every shuffle order, no sender's
\* target list holds the same target name more than once.
C21_NoDuplicateTargets ==
    KnownMode =>
        \A s \in DOMAIN result : \A t \in Range(result[s]) : CountIn(result[s], t) = 1

----------------------------------------------------------------------------
(* Properties of the store *)

\* the members a recompute takes as senders and targets
OnlineNames(mem) == {n \in DOMAIN mem : mem[n].online}

\* l with one occurrence of name taken out, or l itself
WithoutOne(l, l2, name) ==
    \/ l2 = l
    \/ \E i \in 1..Len(l) : l[i] = name /\ l2 = SubSeq(l, 1, i - 1) \o SubSeq(l, i + 1, Len(l))

C14_ResetClearsBatch ==
    [][spc'[Caller] = "reset_event" =>
        /\ assignments' = Empty
        /\ batch_id' = None
        /\ members' = Empty
        /\ locked' = FALSE
        /\ assignment_mode' = assignment_mode]_vars

\* The caller has returned from reset_event, and the mode an admin had switched
\* to power_based is still set.
C14_Witness ==
    /\ spc[Caller] = "reset_event"
    /\ assignment_mode = "power_based"
    /\ members = Empty /\ assignments = Empty /\ batch_id = None /\ ~locked

\* C18: after a remove_member step that removed a registered member, its name is
\* no key of store.assignments and occurs in no target list.
C18_RemovedMemberGoneFromBatch ==
    [][\A name \in DOMAIN members :
        (spc'[Caller] = "remove_member" /\ name \notin DOMAIN members') =>
            /\ name \notin DOMAIN assignments'
            /\ \A k \in DOMAIN assignments' : name \notin Range(assignments'[k])]_vars

----------------------------------------------------------------------------
(* Properties of the sessions *)

\* C11: the locked flag gates the recompute under every interleaving: no
\* Recalculate installs a batch (the block of save_assignments, lines 274-275)
\* while store.locked is true.
C11_LockedGatesRecalculate ==
    [][\A s \in Sessions :
        (spc[s] = "save_in" /\ assignments' # assignments) => ~locked]_vars

\* the steps of a session that touch no field of the store: the Recalculate
\* click, the report of a registration, compute_assignments of an empty roster
TouchesNoStoreField(s) ==
    \/ spc[s] = "script" /\ spc'[s] = "compute"
    \/ spc[s] = "reg_done"
    \/ spc[s] = "compute" /\ loc[s].df = <<>>

\* C13: every read and write of the store's fields is done holding store.lock:
\* while one session is inside a "with store.lock" block, no step of another
\* session reads or writes a field of the store.
C13_StoreAccessUnderLock ==
    [][\A s \in Sessions :
        (spc'[s] # spc[s] /\ lock \notin {"free", s}) => TouchesNoStoreField(s)]_vars

\* C19: no registration changes store.members while store.locked is true,
\* under every interleaving (the block of upsert_member, lines 138-147).
C19_LockedGatesRegistration ==
    [][\A s \in Sessions :
        (spc[s] = "upsert_in" /\ members' # members) => ~locked]_vars

\* C20: when parse_power raises inside upsert_member, the failure is reported
\* to the caller, store.members is unchanged and store.lock is released.
C20_FailedUpsertLeavesStore ==
    [][\A s \in Sessions :
        (/\ spc[s] = "upsert_in"
         /\ spc'[s] # spc[s]
         /\ ~parse_power(loc[s].form[2]).ok)
        => /\ spc'[s] = "reg_done"
           /\ loc'[s].raised
           /\ members' = members
           /\ lock' = "free"]_vars

\* a registration has failed in parse_power on a board that holds a member
C20_Witness ==
    \E s \in Sessions :
        /\ spc[s] = "reg_done"
        /\ loc[s].raised
        /\ members # Empty
        /\ lock = "free"


\* C22: in every reachable state, under any interleaving of sessions that
\* register, recalculate, remove members and reset the event, every sender key
\* and every target name of store.assignments is a key of store.members.
C22_BatchWithinMembers ==
    \A k \in DOMAIN assignments :
        /\ k \in DOMAIN members
        /\ Range(assignments[k]) \subseteq DOMAIN members

============================================================================
